---- MODULE Spec2Model ----
(***************************************************************************)
(* Model of crates/editor/src/ui/build_mode/mod.rs (C-BJ/Ambient):         *)
(*                                                                         *)
(*  - EditorAction<T>: push_intent / confirm / cancel / Drop, the channel  *)
(*    futures_signals::signal::channel(None) between it and the consumer   *)
(*    task spawned by EditorAction::new, which drains the channel through  *)
(*    rx.throttle(|| sleep(throttle)).for_each(..) and calls               *)
(*    client_push_intent; the undo tasks spawned by cancel().              *)
(*  - the update_targets closure of EditorBuildMode::render.               *)
(*                                                                         *)
(* Time passes in ticks of half a throttle interval.                       *)
(***************************************************************************)
EXTENDS Integers, Sequences, FiniteSets, TLC

\* ---------------------------------------------------------------- bounds
MaxOps == 3         \* calls of push_intent / confirm / cancel / drop
MaxArg == 2         \* distinct payload values
MaxSel == 3         \* length of the Selection
MaxChanges == 1     \* changes of the Selection or the world per behaviour

\* ---------------------------------------------------- program parameters
\* `throttle: Duration` of EditorAction::new, in clock ticks.
Throttle == 2
\* Option::None of `id: Option<String>`; minted ids are 1, 2, ...
None == 0

Args == 1..MaxArg

VARIABLES
    \* EditorAction
    alive,           \* the EditorAction (and so the channel's Sender) exists
    id,              \* self.id: None or the outstanding correlation id
    friendlyCount,   \* how many ids friendly_id has returned
    \* channel + consumer task
    slot,            \* the channel's value: <<>> (taken) or <<item>>
    timer,           \* ticks left of Throttle's pending sleep; 0: none pending
    cpc,             \* consumer: "idle" | "submit" | "done"
    inflight,        \* the item whose client_push_intent is being awaited
    \* spawned undo tasks and the server
    undoCalls,       \* ids of the undo tasks spawned by cancel (one rpc each)
    undoRan,         \* indexes of undoCalls whose task has run its rpc
    net,             \* what reached the server, in order
    \* history
    calls,           \* the calls made on the EditorAction, in order
    submitted,       \* the client_push_intent calls made, in order
    gap,             \* ticks since the last client_push_intent call (<= Throttle)
    elapsed,         \* ticks since the first push_intent call (<= Throttle),
                     \* measured under SpecBurst only
    burst,           \* every push_intent so far was made less than one
                     \* throttle interval after the first one
    \* EditorBuildMode::render
    selection,       \* the player's Selection: a sequence of EntityUids
    uidLookup,       \* the uids world.resource(uid_lookup()) maps to an entity
    exists,          \* the uids whose entity exists in the world
    worldLock,       \* game_state's mutex is held by update_targets
    utpc,            \* update_targets: "idle" | "resolved" | "compared"
    res,             \* the `res` of the latest run of update_targets
    prev,            \* the closure's `prev`: <<>> (None) or <<sequence>>
    targets,         \* *targets.lock(), the published Resolved Targets
    rerenders,       \* calls of rerender()
    \* history
    nChanges,        \* changes of the Selection or the world so far
    dirty,           \* Selection or world changed since the latest resolution
    rerun            \* the latest resolution ran on unchanged inputs

avars == <<alive, id, friendlyCount, slot, timer, cpc, inflight, undoCalls,
           undoRan, net, calls, submitted, gap, elapsed, burst>>

tvars == <<selection, uidLookup, exists, worldLock, utpc, res, prev, targets,
           rerenders, nChanges, dirty, rerun>>

vars == <<avars, tvars>>

\* ------------------------------------------------------------ the channel
\* Option<(String, T)>::None; `n` is the index in `calls` of the push_intent
\* that sent the item (history, 0 for the channel's initial value).
NoneItem == [some |-> FALSE, id |-> None, arg |-> 0, n |-> 0]

\* Mutant of SomeItem: the value is paired with self.id as it was before
\* get_or_insert_with.
SomeItemStaleId(i, a, k) == [some |-> TRUE, id |-> id, arg |-> a, n |-> k]

\* Some((id, arg))
SomeItem(i, a, k) == [some |-> TRUE, id |-> i, arg |-> a, n |-> k]

\* Mutant of Send: a value not yet taken is kept, the new one is lost.
SendKeepsFirst(item) == IF slot # <<>> /\ slot[1].some THEN slot ELSE <<item>>

\* futures_signals Sender::send: overwrite the single slot.
Send(item) == <<item>>

\* kiwi_std::friendly_id: a process-unique id, never returned before.
friendly_id == friendlyCount + 1

\* Mutant of GetOrInsertId: a new id for every push.
AlwaysMintId == friendly_id

\* self.id.get_or_insert_with(friendly_id)
GetOrInsertId == IF id = None THEN friendly_id ELSE id

\* A throttle window is open: the sleep started by the last delivery is
\* still pending.
WindowOpen == timer > 0

\* Mutant of TimerReady: the channel is polled whether or not the sleep is
\* pending.
TimerAlwaysReady == TRUE

\* Throttle::poll_change goes on to poll the channel only when no sleep is
\* pending.
TimerReady == ~WindowOpen

\* sleep(throttle), created at the delivery.
StartTimer == Throttle

\* The window a call falls in: 0 when none is open, else the number of the
\* delivery that opened it (history).
Window == IF WindowOpen THEN Len(submitted) + 1 ELSE 0

Call(op, i, a) == [op |-> op, id |-> i, arg |-> a, win |-> Window]

IsPush(k) == calls[k].op = "push_intent"

Pushes == {k \in DOMAIN calls : IsPush(k)}

InitAction ==
    /\ alive = TRUE
    /\ id = None
    /\ friendlyCount = 0
    /\ slot = <<NoneItem>>
    /\ timer = 0
    /\ cpc = "idle"
    /\ inflight = NoneItem
    /\ undoCalls = <<>>
    /\ undoRan = {}
    /\ net = <<>>
    /\ calls = <<>>
    /\ submitted = <<>>
    /\ gap = Throttle
    /\ elapsed = 0
    /\ burst = TRUE

\* --------------------------------------------------------- EditorAction
push_intent(arg) ==
    /\ alive
    /\ Len(calls) < MaxOps
    /\ id' = GetOrInsertId
    /\ friendlyCount' = IF id' # id THEN friendlyCount + 1 ELSE friendlyCount
    /\ slot' = Send(SomeItem(id', arg, Len(calls) + 1))
    /\ calls' = Append(calls, Call("push_intent", id', arg))
    /\ burst' = (burst /\ elapsed < Throttle)
    /\ UNCHANGED <<alive, timer, cpc, inflight, undoCalls, undoRan, net,
                   submitted, gap, elapsed>>
    /\ UNCHANGED tvars

\* Mutant of ConfirmBody: the id survives confirm().
ConfirmKeepsId == id' = id

\* self.id = None
ConfirmBody == id' = None

confirm ==
    /\ alive
    /\ Len(calls) < MaxOps
    /\ ConfirmBody
    /\ calls' = Append(calls, Call("confirm", id', 0))
    /\ UNCHANGED <<alive, friendlyCount, slot, timer, cpc, inflight, undoCalls,
                   undoRan, net, submitted, gap, elapsed, burst>>
    /\ UNCHANGED tvars

\* The body of cancel(&self): spawn the undo task when an id is set.
\* self.id is left as it is.
CancelBody ==
    /\ undoCalls' = IF id # None THEN Append(undoCalls, id) ELSE undoCalls
    /\ id' = id

cancel ==
    /\ alive
    /\ Len(calls) < MaxOps
    /\ CancelBody
    /\ calls' = Append(calls, Call("cancel", id', 0))
    /\ UNCHANGED <<alive, friendlyCount, slot, timer, cpc, inflight, undoRan,
                   net, submitted, gap, elapsed, burst>>
    /\ UNCHANGED tvars

\* Drop for EditorAction: cancel(), then the fields (the Sender) are dropped.
drop ==
    /\ alive
    /\ Len(calls) < MaxOps
    /\ CancelBody
    /\ alive' = FALSE
    /\ calls' = Append(calls, Call("drop", id', 0))
    /\ UNCHANGED <<friendlyCount, slot, timer, cpc, inflight, undoRan, net,
                   submitted, gap, elapsed, burst>>
    /\ UNCHANGED tvars

\* ------------------------------------------------------- consumer task
\* The index in `calls` of the latest push_intent (0: none yet).
LastPush == IF Pushes = {} THEN 0 ELSE CHOOSE k \in Pushes : \A j \in Pushes : j <= k

\* Mutant of Take: the receiver reads the pending value and leaves it in
\* the channel.
TakeLeavesValue == slot

\* The channel after the receiver has taken its pending value.
Take == <<>>

\* Mutant of Submits: the callback submits whatever it is given.
SubmitsAnything(item) == TRUE

\* if let Some((id, arg)) = value
Submits(item) == item.some

\* The throttled stream yields the channel's value: the sleep is started and
\* for_each runs the callback, which submits a Some and ignores a None.
\* `at` records how many calls the EditorAction had received by then.
ConsumerDeliver ==
    /\ cpc = "idle"
    /\ TimerReady
    /\ slot # <<>>
    /\ LET item == slot[1] IN
         /\ slot' = Take
         /\ timer' = StartTimer
         /\ IF Submits(item)
              THEN /\ cpc' = "submit"
                   /\ inflight' = item
                   /\ submitted' = Append(submitted,
                                          [id |-> item.id, arg |-> item.arg,
                                           n |-> item.n, gap |-> gap,
                                           seen |-> LastPush,
                                           at |-> Len(calls)])
                   /\ gap' = 0
              ELSE UNCHANGED <<cpc, inflight, submitted, gap>>
    /\ UNCHANGED <<alive, id, friendlyCount, undoCalls, undoRan, net, calls,
                   elapsed, burst>>
    /\ UNCHANGED tvars

\* Mutant of ConsumerEnd: the stream ends as soon as the channel is empty,
\* whether or not the Sender is still there.
ConsumerEndIgnoresSender ==
    /\ cpc = "idle"
    /\ TimerReady
    /\ slot = <<>>
    /\ cpc' = "done"
    /\ UNCHANGED <<alive, id, friendlyCount, slot, timer, inflight, undoCalls,
                   undoRan, net, calls, submitted, gap, elapsed, burst>>
    /\ UNCHANGED tvars

\* The Sender is gone and the slot is empty: the stream ends, the task too.
ConsumerEnd ==
    /\ cpc = "idle"
    /\ TimerReady
    /\ slot = <<>>
    /\ ~alive
    /\ cpc' = "done"
    /\ UNCHANGED <<alive, id, friendlyCount, slot, timer, inflight, undoCalls,
                   undoRan, net, calls, submitted, gap, elapsed, burst>>
    /\ UNCHANGED tvars

\* The outcomes of one client_push_intent call: the intent reached the
\* server, or the call failed, which is logged and not reported to the caller.
client_push_intent_outcomes == BOOLEAN

\* Mutant of SubmitDone: a failed value is put back into the channel when
\* nothing newer is pending.
SubmitDoneRetries(ok) ==
    /\ cpc = "submit"
    /\ cpc' = "idle"
    /\ inflight' = NoneItem
    /\ net' = IF ok
                THEN Append(net, [kind |-> "push", id |-> inflight.id,
                                  n |-> inflight.n])
                ELSE net
    /\ slot' = IF ~ok /\ slot = <<>> THEN <<inflight>> ELSE slot
    /\ UNCHANGED <<alive, id, friendlyCount, timer, undoCalls, undoRan,
                   calls, submitted, gap, elapsed, burst>>
    /\ UNCHANGED tvars

\* client_push_intent(..).await returns: the intent reached the server (ok)
\* or the call failed and the error was logged. Nothing else is done.
SubmitDone(ok) ==
    /\ cpc = "submit"
    /\ cpc' = "idle"
    /\ inflight' = NoneItem
    /\ net' = IF ok
                THEN Append(net, [kind |-> "push", id |-> inflight.id,
                                  n |-> inflight.n])
                ELSE net
    /\ UNCHANGED <<alive, id, friendlyCount, slot, timer, undoCalls, undoRan,
                   calls, submitted, gap, elapsed, burst>>
    /\ UNCHANGED tvars

\* One of the tasks spawned by cancel() runs client.rpc(rpc_undo_head_exact, id).
UndoRun(i) ==
    /\ i \in DOMAIN undoCalls
    /\ i \notin undoRan
    /\ undoRan' = undoRan \cup {i}
    /\ net' = Append(net, [kind |-> "undo", id |-> undoCalls[i], n |-> 0])
    /\ UNCHANGED <<alive, id, friendlyCount, slot, timer, cpc, inflight,
                   undoCalls, calls, submitted, gap, elapsed, burst>>
    /\ UNCHANGED tvars

\* One clock tick (half a throttle interval); the counters saturate.
\* `el` is the new reading of the burst clock `elapsed`.
TickTo(el) ==
    /\ timer' = IF timer > 0 THEN timer - 1 ELSE 0
    /\ gap' = IF gap < Throttle THEN gap + 1 ELSE gap
    /\ elapsed' = el
    /\ UNCHANGED <<alive, id, friendlyCount, slot, cpc, inflight, undoCalls,
                   undoRan, net, calls, submitted, burst>>
    /\ UNCHANGED tvars

\* A tick with the burst clock stopped.
Tick ==
    /\ timer > 0 \/ gap < Throttle
    /\ TickTo(elapsed)

\* A tick with the burst clock running since the first push_intent.
TickBurst ==
    /\ timer > 0 \/ gap < Throttle \/ (Pushes # {} /\ elapsed < Throttle)
    /\ TickTo(IF Pushes # {} /\ elapsed < Throttle THEN elapsed + 1 ELSE elapsed)

Next ==
    \/ \E a \in Args : push_intent(a)
    \/ confirm
    \/ cancel
    \/ drop
    \/ ConsumerDeliver
    \/ ConsumerEnd
    \/ \E ok \in client_push_intent_outcomes : SubmitDone(ok)
    \/ \E i \in DOMAIN undoCalls : UndoRun(i)
    \/ Tick

NextBurst ==
    \/ \E a \in Args : push_intent(a)
    \/ confirm
    \/ cancel
    \/ drop
    \/ ConsumerDeliver
    \/ ConsumerEnd
    \/ \E ok \in client_push_intent_outcomes : SubmitDone(ok)
    \/ \E i \in DOMAIN undoCalls : UndoRun(i)
    \/ TickBurst

\* ------------------------------------------------ EditorBuildMode::render
Uids == {"A", "B", "C"}

RECURSIVE SeqsUpTo(_)
SeqsUpTo(n) ==
    IF n = 0 THEN {<<>>}
    ELSE LET shorter == SeqsUpTo(n - 1) IN
         shorter \cup {Append(q, u) : q \in {x \in shorter : Len(x) = n - 1}, u \in Uids}

\* Mutant of Resolves: the existence check is left out.
ResolvesByLookupOnly(uid) == uid \in uidLookup

\* uid_lookup().get(&uid) is Ok(id) and state.world.exists(id)
Resolves(uid) == uid \in uidLookup /\ uid \in exists

\* selection.iter().filter_map(..).collect_vec()
FilterMap(sel) == SelectSeq(sel, Resolves)

\* Mutant of Changed: every run publishes.
AlwaysChanged == TRUE

\* Mutant of Changed: a closure that has not resolved yet (prev is None)
\* takes its first resolution as unchanged.
ChangedOnlyAfterFirst == prev # <<>> /\ <<res>> # prev

\* Some(&res) != prev.as_ref()
Changed == <<res>> # prev

\* The first render: `targets` is Arc::from([]), `prev` is None; the player's
\* Selection and the world mirror are whatever they are at that moment.
InitTargets ==
    /\ selection \in SeqsUpTo(MaxSel)
    /\ uidLookup \in SUBSET Uids
    /\ exists \in SUBSET Uids
    /\ worldLock = FALSE
    /\ utpc = "idle"
    /\ res = <<>>
    /\ prev = <<>>
    /\ targets = <<>>
    /\ rerenders = 0
    /\ nChanges = 0
    /\ dirty = TRUE
    /\ rerun = FALSE

\* The state of the render side in which only the EditorAction is observed.
IdleTargets ==
    /\ selection = <<>>
    /\ uidLookup = {}
    /\ exists = {}
    /\ worldLock = FALSE
    /\ utpc = "idle"
    /\ res = <<>>
    /\ prev = <<>>
    /\ targets = <<>>
    /\ rerenders = 0
    /\ nChanges = 0
    /\ dirty = TRUE
    /\ rerun = FALSE

\* update_targets, lines 142-155: take the world lock and resolve.
UtResolve ==
    /\ utpc = "idle"
    /\ ~worldLock
    /\ worldLock' = TRUE
    /\ res' = FilterMap(selection)
    /\ utpc' = "resolved"
    /\ rerun' = ~dirty
    /\ dirty' = FALSE
    /\ UNCHANGED <<selection, uidLookup, exists, prev, targets, rerenders, nChanges>>
    /\ UNCHANGED avars

\* update_targets, lines 157-162: publish when the resolution changed.
UtPublish ==
    /\ utpc = "resolved"
    /\ IF Changed
         THEN /\ prev' = <<res>>
              /\ targets' = res
              /\ rerenders' = rerenders + 1
         ELSE UNCHANGED <<prev, targets, rerenders>>
    /\ utpc' = "compared"
    /\ UNCHANGED <<selection, uidLookup, exists, worldLock, res, nChanges, dirty, rerun>>
    /\ UNCHANGED avars

\* update_targets, line 163: the closure returns and `state` is dropped.
UtReturn ==
    /\ utpc = "compared"
    /\ worldLock' = FALSE
    /\ utpc' = "idle"
    /\ UNCHANGED <<selection, uidLookup, exists, res, prev, targets, rerenders,
                   nChanges, dirty, rerun>>
    /\ UNCHANGED avars

\* set_selection: the Selection becomes `sel`. use_interval_deps runs the
\* closure again for the new dependencies; `fresh` says whether it is the
\* closure of the new render, whose `prev` is None (line 138), that runs.
\* A change made while update_targets runs does not reach the running closure
\* (it reads its `selection` argument), so it is taken between runs.
SetSelection(sel, fresh) ==
    /\ utpc = "idle"
    /\ nChanges < MaxChanges
    /\ sel # selection
    /\ selection' = sel
    /\ prev' = IF fresh THEN <<>> ELSE prev
    /\ nChanges' = nChanges + 1
    /\ dirty' = TRUE
    /\ UNCHANGED <<uidLookup, exists, worldLock, utpc, res, targets, rerenders, rerun>>
    /\ UNCHANGED avars

\* The Selections one user action away: one entity (line 261), one more
\* entity, or none.
NextSelections ==
    {<<u>> : u \in Uids}
      \cup {Append(selection, u) : u \in {x \in Uids : Len(selection) < MaxSel}}
      \cup {<<>>}

\* The replication layer changes the world mirror under its lock: the entity
\* of `uid` appears, is despawned, or its uid is forgotten.
WorldChange(uid, kind) ==
    /\ ~worldLock
    /\ nChanges < MaxChanges
    /\ \/ /\ kind = "spawn"
          /\ ~Resolves(uid)
          /\ uidLookup' = uidLookup \cup {uid}
          /\ exists' = exists \cup {uid}
       \/ /\ kind = "despawn"
          /\ uid \in exists
          /\ exists' = exists \ {uid}
          /\ UNCHANGED uidLookup
       \/ /\ kind = "forget"
          /\ uid \in uidLookup
          /\ uidLookup' = uidLookup \ {uid}
          /\ UNCHANGED exists
    /\ nChanges' = nChanges + 1
    /\ dirty' = TRUE
    /\ UNCHANGED <<selection, worldLock, utpc, res, prev, targets, rerenders, rerun>>
    /\ UNCHANGED avars

NextTargets ==
    \/ UtResolve
    \/ UtPublish
    \/ UtReturn
    \/ \E sel \in NextSelections, fresh \in BOOLEAN : SetSelection(sel, fresh)
    \/ \E uid \in Uids, kind \in {"spawn", "despawn", "forget"} : WorldChange(uid, kind)

\* ------------------------------------------------------- specifications
Init == InitAction /\ IdleTargets

\* The EditorAction, its consumer task and its undo tasks.
Spec == Init /\ [][Next]_vars

\* The same, with the time since the first push_intent measured.
SpecBurst == Init /\ [][NextBurst]_vars

\* The runtime polls a task that is ready, a pending sleep elapses, and an
\* awaited client_push_intent returns.
FairConsumer ==
    /\ WF_vars(ConsumerDeliver)
    /\ WF_vars(ConsumerEnd)
    /\ WF_vars(\E ok \in client_push_intent_outcomes : SubmitDone(ok))
    /\ WF_vars(Tick)

\* The steps of the EditorAction and of its consumer task. The undo tasks
\* spawned by cancel() share no state with the consumer and are left to Next.
NextConsumer ==
    \/ \E a \in Args : push_intent(a)
    \/ confirm
    \/ cancel
    \/ drop
    \/ ConsumerDeliver
    \/ ConsumerEnd
    \/ \E ok \in client_push_intent_outcomes : SubmitDone(ok)
    \/ Tick

\* The EditorAction with its consumer task scheduled fairly.
SpecFair == Init /\ [][NextConsumer]_vars /\ FairConsumer

InitResolution == InitAction /\ InitTargets

\* The target resolution of EditorBuildMode::render.
SpecTargets == InitResolution /\ [][NextTargets]_vars

\* use_interval_deps runs update_targets again every period, and a run that
\* has started goes on to its end.
FairTargets ==
    /\ WF_vars(UtResolve)
    /\ WF_vars(UtPublish)
    /\ WF_vars(UtReturn)

\* The target resolution with its periodic runs taking place.
SpecTargetsFair == InitResolution /\ [][NextTargets]_vars /\ FairTargets

\* --------------------------------------------------------------- claims
Count(seq, x) == Cardinality({i \in DOMAIN seq : seq[i] = x})

Max(S) == CHOOSE k \in S : \A j \in S : j <= k

\* This step is a call of `op` on the EditorAction.
NewCallIs(op) == Len(calls') = Len(calls) + 1 /\ calls'[Len(calls')].op = op

\* The channel holds nothing and no submission is being awaited.
Drained == slot = <<>> /\ cpc # "submit"

\* C1: for an EditorAction with an outstanding correlation id, cancel() and
\* drop each spawn an undo call with that id, and no correlation id ever
\* receives more than one undo call.
C1_CancelDropUndoOnce ==
    [][ /\ ((NewCallIs("cancel") \/ NewCallIs("drop")) /\ id # None)
              => undoCalls' = Append(undoCalls, id)
        /\ \A k, l \in DOMAIN undoCalls' :
              k # l => undoCalls'[k] # undoCalls'[l] ]_vars

\* Every push_intent so far was made less than one throttle interval after
\* the first one.
AllInOneWindow == Pushes # {} /\ burst

\* C2 as stated: N >= 1 pushes that all fall within one throttle interval
\* give exactly one submission, which carries the last pushed value.
C2_OneSubmissionPerBurst ==
    AllInOneWindow =>
        /\ Len(submitted) <= 1
        /\ Drained => (Len(submitted) = 1 /\ submitted[1].n = LastPush)

\* The pushes made while window `w` was open, and the submissions of them.
WindowPushes(w) == {k \in Pushes : calls[k].win = w}

SubmittedOf(w) == {j \in DOMAIN submitted : submitted[j].n \in WindowPushes(w)}

OpenWindows == {calls[k].win : k \in Pushes} \ {0}

\* C2 as amended: every delivery carries the value pushed last before it,
\* and of the pushes made while one throttle window is open at most one is
\* ever submitted, the last of them; once the channel is drained, that one
\* or a later push has been submitted.
C2_CoalescedPerOpenWindow ==
    /\ \A j \in DOMAIN submitted :
          /\ submitted[j].n = submitted[j].seen
          /\ submitted[j].arg = calls[submitted[j].n].arg
    /\ \A w \in OpenWindows :
          /\ Cardinality(SubmittedOf(w)) <= 1
          /\ \A j \in SubmittedOf(w) : submitted[j].n = Max(WindowPushes(w))
          /\ Drained => \E j \in DOMAIN submitted :
                            submitted[j].n >= Max(WindowPushes(w))

\* Two pushes fell into one open window and the last of them was submitted.
C2_Witness ==
    \E w \in OpenWindows :
        /\ Cardinality(WindowPushes(w)) >= 2
        /\ SubmittedOf(w) # {}
        /\ Drained

\* C3: once the undo of a correlation id has reached the server, no
\* submission tagged with that id is applied after it.
C3_NoSubmissionAfterUndo ==
    \A i, j \in DOMAIN net :
        (i < j /\ net[i].kind = "undo" /\ net[j].kind = "push")
            => net[j].id # net[i].id

\* C4: two consecutive client_push_intent calls of the consumer task are at
\* least one throttle interval apart.
C4_RateLimit == \A j \in 2..Len(submitted) : submitted[j].gap >= Throttle

\* Three pushes were made and two submissions came out of them.
C4_Witness == Len(submitted) >= 2 /\ Cardinality(Pushes) >= 3

\* No confirm, cancel or drop lies between calls a and b.
SameGesture(cs, a, b) == \A k \in a..b : cs[k].op = "push_intent"

\* C5: push_intent mints no id while one is outstanding, and the
\* submissions of pushes with no confirm/cancel between them carry the same
\* correlation id.
C5_CorrelationStability ==
    [][ /\ (NewCallIs("push_intent") /\ id # None)
              => (id' = id /\ friendlyCount' = friendlyCount)
        /\ \A i, j \in DOMAIN submitted' :
              (/\ submitted'[i].n <= submitted'[j].n
               /\ SameGesture(calls', submitted'[i].n, submitted'[j].n))
                  => submitted'[i].id = submitted'[j].id ]_vars

\* Two submissions of one gesture were made while its id is outstanding.
C5_Witness ==
    /\ Len(submitted) >= 2
    /\ SameGesture(calls, submitted[1].n, submitted[2].n)
    /\ id = submitted[2].id
    /\ id # None

\* A confirm was called and no push_intent since.
NoPushSinceConfirm ==
    \E k \in DOMAIN calls :
        /\ calls[k].op = "confirm"
        /\ \A j \in (k + 1)..Len(calls) : calls[j].op # "push_intent"

\* C6: confirm() sets the id to None and spawns no undo; a drop after
\* confirm() with no push_intent in between spawns no undo either.
C6_ConfirmTerminalClean ==
    [][ /\ NewCallIs("confirm") => (id' = None /\ undoCalls' = undoCalls)
        /\ (NewCallIs("drop") /\ NoPushSinceConfirm)
              => undoCalls' = undoCalls ]_vars

\* push_intent, confirm, drop: the gesture was confirmed, nothing is undone.
C6_Witness ==
    /\ Len(calls) = 3
    /\ calls[1].op = "push_intent"
    /\ calls[2].op = "confirm"
    /\ calls[3].op = "drop"
    /\ undoCalls = <<>>
    /\ ~alive

\* C7: two pushes with a confirm() between them carry different
\* correlation ids.
C7_FreshIdPerGesture ==
    \A a, b \in Pushes :
        (\E k \in DOMAIN calls : a < k /\ k < b /\ calls[k].op = "confirm")
            => calls[a].id # calls[b].id

\* push_intent, confirm, push_intent, and both pushes were submitted.
C7_Witness ==
    /\ Len(calls) = 3
    /\ calls[1].op = "push_intent"
    /\ calls[2].op = "confirm"
    /\ calls[3].op = "push_intent"
    /\ Len(submitted) = 2

RECURSIVE IsSubseq(_, _)
IsSubseq(small, big) ==
    IF small = <<>> THEN TRUE
    ELSE IF big = <<>> THEN FALSE
    ELSE IF Head(small) = Head(big) THEN IsSubseq(Tail(small), Tail(big))
    ELSE IsSubseq(small, Tail(big))

Live == uidLookup \cap exists

\* C8: a run of update_targets yields the Selection's identifiers that
\* resolve to an existing entity, all of them, in Selection order, and
\* nothing else; [A, B, C] with B missing gives [A, C].
C8_ResolutionFiltering ==
    utpc # "idle" =>
        /\ IsSubseq(res, selection)
        /\ \A i \in DOMAIN res : res[i] \in uidLookup /\ res[i] \in exists
        /\ \A u \in Live : Count(res, u) = Count(selection, u)
        /\ (selection = <<"A", "B", "C">> /\ "B" \notin Live /\ {"A", "C"} \subseteq Live)
              => res = <<"A", "C">>

\* The run on [A, B, C] with B missing.
C8_Witness ==
    /\ utpc = "resolved"
    /\ selection = <<"A", "B", "C">>
    /\ "B" \in uidLookup \ exists
    /\ res = <<"A", "C">>

\* C9: duplicate identifiers of the Selection collapse to one entry of the
\* resolution; [A, A, B] with A and B existing gives [A, B].
C9_Deduplication ==
    utpc # "idle" =>
        /\ \A i, j \in DOMAIN res : i # j => res[i] # res[j]
        /\ (selection = <<"A", "A", "B">> /\ {"A", "B"} \subseteq Live)
              => res = <<"A", "B">>

C11_LockDiscipline ==
    [][ (targets' # targets \/ rerenders' # rerenders) => ~worldLock ]_vars

\* C12: cancel() on an EditorAction with an outstanding correlation id
\* leaves no id outstanding, and no later push_intent tags its value with an
\* id whose undo has been requested.
C12_CancelResolvesId ==
    [][ /\ (NewCallIs("cancel") /\ id # None) => id' = None
        /\ NewCallIs("push_intent")
              => \A k \in DOMAIN undoCalls : id' # undoCalls[k] ]_vars

\* Push k is the last push of its gesture: the next call confirms it.
FinalOfGesture(k) == IsPush(k) /\ k < Len(calls) /\ calls[k + 1].op = "confirm"

\* C13: the last value pushed in a gesture is never lost: it is still
\* pending in the channel or it has been submitted with the gesture's
\* correlation id (only a pending value can still be submitted later).
C13_FinalValueNotLost ==
    \A k \in DOMAIN calls :
        FinalOfGesture(k) =>
            \/ slot # <<>> /\ slot[1].some /\ slot[1].n = k
            \/ \E j \in DOMAIN submitted :
                  submitted[j].n = k /\ submitted[j].id = calls[k].id

Confirms == {c \in DOMAIN calls : calls[c].op = "confirm"}

\* The correlation id that call c found in self.id.
IdBefore(c) == IF c = 1 THEN None ELSE calls[c - 1].id

\* The submissions carrying the id confirmed by call c that the consumer
\* issued after that confirm() had returned.
LateSubmissions(c) ==
    {j \in DOMAIN submitted :
        submitted[j].at >= c /\ submitted[j].id = IdBefore(c)}

\* C14 as stated: after confirm() has returned, the consumer task issues no
\* further submission carrying the confirmed correlation id.
C14_NoSubmissionAfterConfirm ==
    \A c \in Confirms : IdBefore(c) # None => LateSubmissions(c) = {}

\* C14 as amended: after confirm() has returned, no push_intent tags a
\* value with the confirmed id, and the consumer issues at most one more
\* submission carrying it: that of the last value pushed before confirm().
C14_ConfirmLeavesOnePending ==
    \A c \in Confirms :
        IdBefore(c) # None =>
            /\ \A k \in Pushes : k > c => calls[k].id # IdBefore(c)
            /\ Cardinality(LateSubmissions(c)) <= 1
            /\ \A j \in LateSubmissions(c) :
                  /\ submitted[j].n = Max({k \in Pushes : k < c})
                  /\ submitted[j].arg = calls[submitted[j].n].arg

\* Two values were pushed, confirm() returned, and the second value was
\* submitted with the confirmed id afterwards.
C14_Witness ==
    \E c \in Confirms :
        /\ IdBefore(c) # None
        /\ Cardinality({k \in Pushes : k < c}) >= 2
        /\ LateSubmissions(c) # {}

\* C15: the consumer starts a submission only when none is being awaited,
\* and the submissions are pushes taken in push order: each carries the
\* value of one push_intent call, later submissions carry later pushes, and
\* no push is submitted twice.
C15_SubmissionOrdering ==
    [][ /\ submitted' # submitted
              => /\ cpc # "submit"
                 /\ Len(submitted') = Len(submitted) + 1
                 /\ SubSeq(submitted', 1, Len(submitted)) = submitted
        /\ \A j \in DOMAIN submitted' :
              /\ submitted'[j].n \in DOMAIN calls'
              /\ calls'[submitted'[j].n].op = "push_intent"
              /\ submitted'[j].arg = calls'[submitted'[j].n].arg
        /\ \A i, j \in DOMAIN submitted' :
              i < j => submitted'[i].n < submitted'[j].n ]_vars

\* Three pushes, the second coalesced away: the first and the third were
\* submitted, in that order.
C15_Witness ==
    /\ Len(submitted) = 2
    /\ submitted[1].n = 1
    /\ submitted[2].n = 3
    /\ Pushes = {1, 2, 3}
    /\ cpc = "idle"

\* C16: a delivery of None (the channel's initial value included) starts no
\* submission and leaves the consumer idle; every submission is that of a
\* push_intent call, so there are never more submissions than pushes and
\* none before the first push.
C16_NoneIsNoOp ==
    [][ /\ (slot # <<>> /\ ~slot[1].some /\ slot' = <<>>)
              => (submitted' = submitted /\ cpc' = "idle" /\ net' = net)
        /\ Len(submitted') <= Cardinality({k \in DOMAIN calls' :
                                              calls'[k].op = "push_intent"})
        /\ (\A k \in DOMAIN calls' : calls'[k].op # "push_intent")
              => submitted' = <<>> ]_vars

\* The consumer has taken the channel's initial None: nothing was submitted
\* and the throttle sleep it started is pending.
C16_Witness ==
    /\ slot = <<>>
    /\ Pushes = {}
    /\ WindowOpen
    /\ cpc = "idle"
    /\ submitted = <<>>
    /\ net = <<>>

\* C17: the consumer task has not terminated while the EditorAction exists;
\* once the EditorAction is dropped the task eventually terminates; a
\* terminated task stays terminated and issues no submission.
C17_ConsumerLifetime ==
    /\ [](alive => cpc # "done")
    /\ (~alive ~> cpc = "done")
    /\ [][cpc = "done" => (cpc' = "done" /\ submitted' = submitted)]_vars

\* The EditorAction was dropped with a value pending; the consumer submitted
\* it after the drop and then terminated.
C17_Witness ==
    /\ ~alive
    /\ cpc = "done"
    /\ submitted # <<>>
    /\ submitted[Len(submitted)].at = Len(calls)

\* This step is the return of a client_push_intent call that failed.
SubmissionFails == cpc = "submit" /\ cpc' = "idle" /\ net' = net

\* The completed submissions of log `sub` that did not reach the server
\* log `nt`, while `pc` is the consumer's position.
Failed(sub, nt, pc) ==
    {j \in DOMAIN sub :
        /\ (j < Len(sub) \/ pc # "submit")
        /\ \A i \in DOMAIN nt : ~(nt[i].kind = "push" /\ nt[i].n = sub[j].n)}

\* C18: a failing submission changes neither the correlation id nor the
\* channel and leaves the consumer idle, not terminated; the failed value
\* is never submitted again; and a later submission of the same gesture
\* carries the same correlation id as the failed one.
C18_TransientFailure ==
    [][ /\ SubmissionFails
              => /\ id' = id
                 /\ slot' = slot
                 /\ submitted' = submitted
                 /\ inflight' = NoneItem
                 /\ timer' = timer
                 /\ alive' = alive
        /\ \A j \in Failed(submitted', net', cpc') :
              \A i \in DOMAIN submitted' :
                  /\ i # j => submitted'[i].n # submitted'[j].n
                  /\ (i > j /\ SameGesture(calls', submitted'[j].n, submitted'[i].n))
                        => submitted'[i].id = submitted'[j].id ]_vars

\* A submission failed; a later push of the same gesture was submitted with
\* the same correlation id and reached the server.
C18_Witness ==
    \E j \in Failed(submitted, net, cpc) :
        \E i \in DOMAIN submitted :
            /\ i > j
            /\ SameGesture(calls, submitted[j].n, submitted[i].n)
            /\ submitted[i].id = submitted[j].id
            /\ \E k \in DOMAIN net :
                  net[k].kind = "push" /\ net[k].n = submitted[i].n

\* `item` is the pair written to the channel by one push_intent call: its
\* value and the correlation id the dispatcher held when that call returned.
WrittenByOnePush(item) ==
    /\ item.n \in Pushes
    /\ item.id = calls[item.n].id
    /\ item.arg = calls[item.n].arg
    /\ item.id # None

\* C20: every pair the consumer has submitted, is awaiting or can still
\* take from the channel, and every pair that reached the server, is the
\* (id, value) pair written by a single push_intent call.
C20_IdValuePairing ==
    /\ \A j \in DOMAIN submitted : WrittenByOnePush(submitted[j])
    /\ (slot # <<>> /\ slot[1].some) => WrittenByOnePush(slot[1])
    /\ inflight.some => WrittenByOnePush(inflight)
    /\ \A i \in DOMAIN net :
          net[i].kind = "push"
              => (net[i].n \in Pushes /\ net[i].id = calls[net[i].n].id)

\* A value was submitted with the id it was pushed with after later calls
\* had been made on the EditorAction, which now holds another id.
C20_Witness ==
    \E j \in DOMAIN submitted :
        /\ id # None
        /\ submitted[j].id # id
        /\ submitted[j].at > submitted[j].n
        /\ \E k \in Pushes : k > submitted[j].n /\ calls[k].id = id

\* The identifiers of the Selection whose entity exists, in Selection order.
ExistenceFilter(sel) == SelectSeq(sel, LAMBDA u : u \in Live)

\* C19: the Selection and the world mirror change finitely often (at most
\* MaxChanges times); from some point on the published targets are the
\* order-preserving existence filter of the current Selection, for good.
C19_BoundedStaleness == <>[](targets = ExistenceFilter(selection))

\* The Selection or the world changed after a publish, and a later run has
\* published the resolution of the new state.
C19_Witness ==
    /\ nChanges >= 1
    /\ utpc = "idle"
    /\ ~dirty
    /\ rerenders >= 2
    /\ targets # <<>>
    /\ targets = ExistenceFilter(selection)

====
